---- MODULE Spec2Model ----
(***************************************************************************)
(* Model of src/server/handy.rs: the session stores                        *)
(* (NoServerSessionStorage, ServerSessionMemoryCache), the ticket producer *)
(* NeverProducesTickets and the certificate resolvers.                     *)
(*                                                                         *)
(* Specifications:                                                         *)
(*   Spec      ServerSessionMemoryCache shared by NumCallers callers       *)
(*   SeqSpec   ServerSessionMemoryCache used by one caller                 *)
(*   NoStoreSpec  NoServerSessionStorage                                   *)
(*   SniSpec   ResolvesServerCertUsingSNI                                  *)
(*   TraceSpec as Spec, with a history of the inserts                      *)
(*   FairSpec  as Spec, under fair scheduling                              *)
(*   StaticSpec  AlwaysResolvesChain                                       *)
(*   TicketSpec  NeverProducesTickets                                      *)
(*   FailSpec  FailResolveChain                                            *)
(***************************************************************************)
EXTENDS Integers, Sequences, FiniteSets, TLC

\* ------------------------------------------------------------------ bounds
NumCallers == 2
NumKeys == 3
NumValues == 2
MaxCapacity == 2
NumSeeds == 2

\* ------------------------------------------------------- program constants
SessionIDLen == 32

\* ------------------------------------------------------------- value sets
Callers == 1..NumCallers
Solo == 1
\* Vec<u8> session ids as the tests use them: [0x01], [0x03], [0x05], ...
Keys == {<<2 * i - 1>> : i \in 1..NumKeys}
\* Vec<u8> session values: [0x02], [0x04], ...
Values == {<<2 * i>> : i \in 1..NumValues}

Free == 0

\* Option<T>
None == <<"None">>
Some(x) == <<"Some", x>>
Bool(b) == <<"bool", b>>

VARIABLES
    cache,        \* ServerSessionMemoryCache.cache: the entries of the HashMap
    max_entries,  \* ServerSessionMemoryCache.max_entries
    lock,         \* holder of the Mutex around cache, or Free
    pc,           \* position of each caller inside put / get
    result,       \* the value returned by the call that returned last
    by_name,      \* ResolvesServerCertUsingSNI.by_name: the HashMap's entries
    last,         \* history: the latest call, its arguments and its result
    prev,         \* history: the call before last
    putLog,       \* history: the keys put so far, and whether all were new
    before,       \* history: what the map held as the latest put was entered
    added,        \* history: per name, the keys of its latest successful adds
    resolver_ck,  \* AlwaysResolvesChain.0: the CertifiedKey it was built with
    encLog,       \* history: the inputs handed to encrypt so far
    latest,       \* history: per key, the value of the latest insert under it
    peak          \* history: the greatest number of entries the map has held

cacheVars == <<cache, max_entries, lock, pc>>
history == <<last, prev, putLog, before>>
sniVars == <<by_name, added>>
otherVars == <<resolver_ck, encLog>>
traceVars == <<latest, peak>>
vars == <<cache, max_entries, lock, pc, result, by_name,
          last, prev, putLog, before, added,
          resolver_ck, encLog, latest, peak>>

\* ------------------------------------------------ std::collections::HashMap
\* The map is its set of <<key, value>> entries.
HashMapLen(m) == Cardinality(m)

HashMapContains(m, k) == \E e \in m : e[1] = k

HashMapGet(m, k) ==
    IF HashMapContains(m, k)
    THEN Some((CHOOSE e \in m : e[1] = k)[2])
    ELSE None

\* insert that keeps an existing entry (entry(k).or_insert(v))
HashMapInsert_keepOld(m, k, v) ==
    IF HashMapContains(m, k) THEN m ELSE m \cup {<<k, v>>}

\* insert that adds an entry without replacing the one of the same key
HashMapInsert_append(m, k, v) == m \cup {<<k, v>>}

HashMapInsert(m, k, v) == {e \in m : e[1] # k} \cup {<<k, v>>}

HashMapRemove(m, k) == {e \in m : e[1] # k}

HashMapKeys(m) == {e[1] : e \in m}

\* --------------------------------------------------------------- SessionID
\* rand::fill_random(&mut v): one of NumSeeds fillings of the 32 bytes.
RandomFills == {[i \in 1..SessionIDLen |-> (s * i) % 256] : s \in 1..NumSeeds}

SessionID_new(bytes) == <<"SessionID", bytes>>
SessionID_empty == <<"SessionID", <<>>>>
SessionID_len(id) == Len(id[2])

\* ------------------------------------------------ ServerSessionMemoryCache
NoResult == <<"none">>

\* ServerSessionMemoryCache::new(size), debug_assert!(size > 0)
CacheInit ==
    /\ cache = {}
    /\ max_entries \in 1..MaxCapacity
    /\ lock = Free
    /\ pc = [t \in Callers |-> "idle"]
    /\ result = NoResult

\* generate(): no lock, no access to the map
Generate(t) ==
    /\ pc[t] = "idle"
    /\ \E v \in RandomFills : result' = SessionID_new(v)
    /\ UNCHANGED <<cache, max_entries, lock, pc>>

\* put(key, value) is entered and waits for the lock
PutCall(t) ==
    /\ pc[t] = "idle"
    /\ pc' = [pc EXCEPT ![t] = "put_lock"]
    /\ UNCHANGED <<cache, max_entries, lock, result>>

\* an insert whose guard lives on to the end of put
PutInsert_keepsLock(t, k, v) ==
    /\ pc[t] = "put_lock"
    /\ lock = Free
    /\ cache' = HashMapInsert(cache, k, v)
    /\ lock' = t
    /\ pc' = [pc EXCEPT ![t] = "limit_lock"]
    /\ UNCHANGED <<max_entries, result>>

\* self.cache.lock().unwrap().insert(key, value); the guard is a temporary
\* and is dropped at the end of the statement
PutInsert(t, k, v) ==
    /\ pc[t] = "put_lock"
    /\ lock = Free
    /\ cache' = HashMapInsert(cache, k, v)
    /\ lock' = Free
    /\ pc' = [pc EXCEPT ![t] = "limit_lock"]
    /\ UNCHANGED <<max_entries, result>>

\* limit_size: let mut cache = self.cache.lock().unwrap();
LimitSizeLock(t) ==
    /\ pc[t] = "limit_lock"
    /\ lock = Free
    /\ lock' = t
    /\ pc' = [pc EXCEPT ![t] = "limit_loop"]
    /\ UNCHANGED <<cache, max_entries, result>>

\* loop conditions that are off by one
OverLimit_slack(m, max) == HashMapLen(m) > max + 1

OverLimit_eager(m, max) == HashMapLen(m) >= max

\* while cache.len() > self.max_entries
OverLimit(m, max) == HashMapLen(m) > max

\* an eviction that empties the map (cache.clear())
LimitSizeEvict_clear(t) ==
    /\ pc[t] = "limit_loop"
    /\ lock = t
    /\ OverLimit(cache, max_entries)
    /\ cache' = {}
    /\ UNCHANGED <<max_entries, lock, pc, result>>

\* let k = cache.keys().next().unwrap().clone(); cache.remove(&k);
\* the iteration order of the HashMap is unspecified: any key can be first
LimitSizeEvict(t) ==
    /\ pc[t] = "limit_loop"
    /\ lock = t
    /\ OverLimit(cache, max_entries)
    /\ \E k \in HashMapKeys(cache) : cache' = HashMapRemove(cache, k)
    /\ UNCHANGED <<max_entries, lock, pc, result>>

\* the loop ends, the guard is dropped, put returns true
LimitSizeReturn(t) ==
    /\ pc[t] = "limit_loop"
    /\ lock = t
    /\ ~OverLimit(cache, max_entries)
    /\ lock' = Free
    /\ pc' = [pc EXCEPT ![t] = "idle"]
    /\ result' = Bool(TRUE)
    /\ UNCHANGED <<cache, max_entries>>

\* get(key) is entered and waits for the lock
GetCall(t) ==
    /\ pc[t] = "idle"
    /\ pc' = [pc EXCEPT ![t] = "get_lock"]
    /\ UNCHANGED <<cache, max_entries, lock, result>>

\* a lookup that takes the entry out of the map (remove instead of get)
GetLookup_take(t, k) ==
    /\ pc[t] = "get_lock"
    /\ lock = Free
    /\ result' = HashMapGet(cache, k)
    /\ cache' = HashMapRemove(cache, k)
    /\ pc' = [pc EXCEPT ![t] = "idle"]
    /\ UNCHANGED <<max_entries, lock>>

\* self.cache.lock().unwrap().get(key).cloned()
GetLookup(t, k) ==
    /\ pc[t] = "get_lock"
    /\ lock = Free
    /\ result' = HashMapGet(cache, k)
    /\ pc' = [pc EXCEPT ![t] = "idle"]
    /\ UNCHANGED <<cache, max_entries, lock>>

\* ------------------------------------------------- NoServerSessionStorage
NoStore_generate == SessionID_empty

NoStore_put(id, sec) == Bool(FALSE)

\* a get that gives back what an earlier put was handed
NoStore_get_remembers(id) == IF id \in putLog.keys THEN Some(id) ELSE None

NoStore_get(id) == None

\* -------------------------------------------- names and certified keys
\* A name is the sequence of its characters.
Letters == {"a", "A", "b", "B"}

LowerChar(c) == CASE c = "A" -> "a" [] c = "B" -> "b" [] OTHER -> c

Lower(name) == [i \in 1..Len(name) |-> LowerChar(name[i])]

\* webpki::DNSNameRef::try_from_ascii_str(name).is_ok(): letters in labels
\* separated by single dots, no empty label (a final dot is allowed), no
\* other character; the names here are far below the length limits
IsValidDnsName(name) ==
    /\ Len(name) > 0
    /\ \A i \in 1..Len(name) : name[i] \in Letters \cup {"."}
    /\ name[1] # "."
    /\ \A i \in 1..(Len(name) - 1) : ~(name[i] = "." /\ name[i + 1] = ".")

Ok == <<"Ok">>
Err(msg) == <<"Err", msg>>

\* sign::CertifiedKey::cross_check_end_entity_cert(Some(name)): the chain has
\* an end-entity certificate, it parses, and it is valid for name (DNS names
\* of a certificate match without regard to letter case)
CrossCheckEndEntityCert(ck, name) ==
    IF Len(ck.cert) = 0
    THEN Err("No end-entity certificate in certificate chain")
    ELSE IF ~ck.cert[1].wellformed
    THEN Err("End-entity certificate in certificate chain is syntactically invalid")
    ELSE IF Lower(name) \notin ck.cert[1].dns
    THEN Err("The server certificate is not valid for the given name")
    ELSE Ok

Cert(names) == [wellformed |-> TRUE, dns |-> names]
BrokenCert == [wellformed |-> FALSE, dns |-> {}]

NameA == <<"a">>
NameUpperA == <<"A">>
NameB == <<"b">>
NameAB == <<"a", ".", "b">>

\* the names handed to add: legal ones, one with an illegal character, one
\* with an empty label, the empty string
SniNames ==
    {NameA, NameUpperA, NameB, NameAB, <<"a", "!">>, <<"a", ".", ".", "b">>, <<>>}

\* webpki::DNSNameRef values: only legal names exist
DnsNameRefs == {n \in SniNames : IsValidDnsName(n)}

\* sign::CertifiedKey: cert is the chain, end-entity first
CertifiedKeys ==
    {[cert |-> <<Cert({NameA, NameAB})>>, key |-> 1],
     [cert |-> <<Cert({NameA}), Cert({NameB})>>, key |-> 2],
     [cert |-> <<Cert({NameB})>>, key |-> 3],
     [cert |-> <<>>, key |-> 4],
     [cert |-> <<BrokenCert>>, key |-> 5]}

SchemeLists ==
    {<<>>, <<"RSA_PKCS1_SHA256">>, <<"ECDSA_NISTP256_SHA256", "RSA_PSS_SHA256">>}

\* -------------------------------------------- ResolvesServerCertUsingSNI
\* an add that inserts before the certificate is checked against the name
Add_insertFirst(m, name, ck) ==
    IF ~IsValidDnsName(name)
    THEN [by_name |-> m, result |-> Err("Bad DNS name")]
    ELSE [by_name |-> HashMapInsert(m, name, ck),
          result |-> CrossCheckEndEntityCert(ck, name)]

\* an add that checks nothing
Add_unchecked(m, name, ck) ==
    [by_name |-> HashMapInsert(m, name, ck), result |-> Ok]

\* add(name, ck): the table and the result it leaves
Add(m, name, ck) ==
    IF ~IsValidDnsName(name)
    THEN [by_name |-> m, result |-> Err("Bad DNS name")]
    ELSE IF CrossCheckEndEntityCert(ck, name) # Ok
    THEN [by_name |-> m, result |-> CrossCheckEndEntityCert(ck, name)]
    ELSE [by_name |-> HashMapInsert(m, name, ck), result |-> Ok]

\* a resolve that, given no name, falls back to the only entry of the table
Resolve_soleEntry(m, server_name, sigschemes) ==
    IF server_name # None
    THEN HashMapGet(m, server_name[2])
    ELSE IF HashMapLen(m) = 1
    THEN Some((CHOOSE e \in m : TRUE)[2])
    ELSE None

\* a resolve that folds the name to lower case before the lookup
Resolve_lowercase(m, server_name, sigschemes) ==
    IF server_name # None
    THEN HashMapGet(m, Lower(server_name[2]))
    ELSE None

\* resolve(server_name, sigschemes)
Resolve(m, server_name, sigschemes) ==
    IF server_name # None
    THEN HashMapGet(m, server_name[2])
    ELSE None

\* ----------------------------------------------------- NeverProducesTickets
U32(n) == <<"u32", n>>

Never_enabled == Bool(FALSE)

Never_get_lifetime == U32(0)

Never_encrypt(bytes) == None

\* a decrypt that opens what an earlier encrypt was handed
Never_decrypt_echo(bytes) == IF bytes \in encLog THEN Some(bytes) ELSE None

Never_decrypt(bytes) == None

\* --------------------------------------------------------- FailResolveChain
\* a resolve that answers with an empty CertifiedKey when a name is given
FailResolve_unlessNamed(server_name, sigschemes) ==
    IF server_name # None
    THEN Some([cert |-> <<>>, key |-> 0, ocsp |-> None, sct_list |-> None])
    ELSE None

FailResolve_resolve(server_name, sigschemes) == None

\* ------------------------------------------------------ AlwaysResolvesChain
\* new_rsa(chain, priv_key): CertifiedKey::new(chain, key), no OCSP, no SCTs
AlwaysResolvesChain_new_rsa(chain, priv_key) ==
    [cert |-> chain, key |-> priv_key, ocsp |-> None, sct_list |-> None]

\* new_rsa_with_extras(chain, priv_key, ocsp, scts): ocsp and scts are
\* attached when they are not empty
AlwaysResolvesChain_new_rsa_with_extras(chain, priv_key, ocsp, scts) ==
    [cert |-> chain,
     key |-> priv_key,
     ocsp |-> IF Len(ocsp) # 0
              THEN Some(ocsp)
              ELSE AlwaysResolvesChain_new_rsa(chain, priv_key).ocsp,
     sct_list |-> IF Len(scts) # 0
                  THEN Some(scts)
                  ELSE AlwaysResolvesChain_new_rsa(chain, priv_key).sct_list]

\* a resolve that, like the SNI resolver, gives nothing when no name is sent
AlwaysResolvesChain_resolve_needsName(ck, server_name, sigschemes) ==
    IF server_name # None THEN Some(ck) ELSE None

\* resolve(_server_name, _sigschemes): Some(self.0.clone())
AlwaysResolvesChain_resolve(ck, server_name, sigschemes) == Some(ck)

\* ------------------------------------------------------------- history
\* A call with its arguments and the value it returned.
Called(op, key, value, res) ==
    [op |-> op, key |-> key, value |-> value, result |-> res]

NoCall == Called("none", <<>>, <<>>, NoResult)

\* putLog.keys: the keys of the put calls made so far;
\* putLog.distinct: no key was put twice
NoPuts == [keys |-> {}, distinct |-> TRUE]

LogPut(log, k) ==
    [keys |-> log.keys \cup {k}, distinct |-> log.distinct /\ k \notin log.keys]

\* the same, forgetting the keys once a key was put twice
LogDistinctPut(log, k) ==
    IF log.distinct /\ k \notin log.keys
    THEN [keys |-> log.keys \cup {k}, distinct |-> TRUE]
    ELSE [keys |-> {}, distinct |-> FALSE]

\* what the map m holds for key k: is k stored, with what, among how many
Snapshot(m, k) ==
    [had |-> HashMapContains(m, k), old |-> HashMapGet(m, k), len |-> HashMapLen(m)]

\* the keys of the two latest successful adds of a name
LogAdd(log, name, ck, res) ==
    IF res = Ok
    THEN [log EXCEPT ![name] =
            IF Len(@) = 0 THEN <<ck>> ELSE <<@[Len(@)], ck>>]
    ELSE log

LatestAdded(n) == IF Len(added[n]) = 0 THEN None ELSE Some(added[n][Len(added[n])])

NoHistory ==
    /\ last = NoCall
    /\ prev = NoCall
    /\ putLog = NoPuts
    /\ before = Snapshot({}, <<>>)

\* ResolvesServerCertUsingSNI::new()
SniInit ==
    /\ by_name = {}
    /\ added = [n \in SniNames |-> <<>>]

\* no AlwaysResolvesChain and no ticket producer in use
NoCertifiedKey == [cert |-> <<>>, key |-> 0, ocsp |-> None, sct_list |-> None]

NoResolver ==
    /\ resolver_ck = NoCertifiedKey
    /\ encLog = {}

NoTrace ==
    /\ latest = [k \in Keys |-> None]
    /\ peak = 0

\* ------------------------------------------------- Spec: several callers
\* The cache shared by NumCallers callers; no history is kept.
Init ==
    /\ CacheInit
    /\ NoHistory
    /\ SniInit
    /\ NoResolver
    /\ NoTrace

DoGenerate == \E t \in Callers : Generate(t) /\ UNCHANGED <<history, sniVars, otherVars, traceVars>>
DoPutCall == \E t \in Callers : PutCall(t) /\ UNCHANGED <<history, sniVars, otherVars, traceVars>>
DoPutInsert ==
    \E t \in Callers, k \in Keys, v \in Values :
        PutInsert(t, k, v) /\ UNCHANGED <<history, sniVars, otherVars, traceVars>>
DoLimitSizeLock == \E t \in Callers : LimitSizeLock(t) /\ UNCHANGED <<history, sniVars, otherVars, traceVars>>
DoLimitSizeEvict == \E t \in Callers : LimitSizeEvict(t) /\ UNCHANGED <<history, sniVars, otherVars, traceVars>>
DoLimitSizeReturn == \E t \in Callers : LimitSizeReturn(t) /\ UNCHANGED <<history, sniVars, otherVars, traceVars>>
DoGetCall == \E t \in Callers : GetCall(t) /\ UNCHANGED <<history, sniVars, otherVars, traceVars>>
DoGetLookup ==
    \E t \in Callers, k \in Keys :
        GetLookup(t, k) /\ UNCHANGED <<history, sniVars, otherVars, traceVars>>

Next ==
    \/ DoGenerate
    \/ DoPutCall
    \/ DoPutInsert
    \/ DoLimitSizeLock
    \/ DoLimitSizeEvict
    \/ DoLimitSizeReturn
    \/ DoGetCall
    \/ DoGetLookup

Spec == Init /\ [][Next]_vars

\* ------------------------------------------------- SeqSpec: one caller
\* The history is kept for the one caller: last and prev are the two latest
\* calls (a put is entered in last with its arguments at its insert and gets
\* its result when it returns), before is the map at the entry of the put.
SeqGenerate ==
    /\ Generate(Solo)
    /\ last' = Called("generate", <<>>, <<>>, result')
    /\ prev' = last
    /\ UNCHANGED <<putLog, before, sniVars, otherVars, traceVars>>
SeqPutCall == PutCall(Solo) /\ UNCHANGED <<history, sniVars, otherVars, traceVars>>
SeqPutInsert ==
    \E k \in Keys, v \in Values :
        /\ PutInsert(Solo, k, v)
        /\ last' = Called("put", k, v, NoResult)
        /\ prev' = last
        /\ putLog' = LogDistinctPut(putLog, k)
        /\ before' = Snapshot(cache, k)
        /\ UNCHANGED <<sniVars, otherVars, traceVars>>
SeqLimitSizeLock == LimitSizeLock(Solo) /\ UNCHANGED <<history, sniVars, otherVars, traceVars>>
SeqLimitSizeEvict == LimitSizeEvict(Solo) /\ UNCHANGED <<history, sniVars, otherVars, traceVars>>
SeqLimitSizeReturn ==
    /\ LimitSizeReturn(Solo)
    /\ last' = [last EXCEPT !.result = result']
    /\ UNCHANGED <<prev, putLog, before, sniVars, otherVars, traceVars>>
SeqGetCall == GetCall(Solo) /\ UNCHANGED <<history, sniVars, otherVars, traceVars>>
SeqGetLookup ==
    \E k \in Keys :
        /\ GetLookup(Solo, k)
        /\ last' = Called("get", k, <<>>, result')
        /\ prev' = last
        /\ UNCHANGED <<putLog, before, sniVars, otherVars, traceVars>>

SeqNext ==
    \/ SeqGenerate
    \/ SeqPutCall
    \/ SeqPutInsert
    \/ SeqLimitSizeLock
    \/ SeqLimitSizeEvict
    \/ SeqLimitSizeReturn
    \/ SeqGetCall
    \/ SeqGetLookup

SeqSpec == Init /\ [][SeqNext]_vars

\* --------------------------------- NoStoreSpec: NoServerSessionStorage
\* ids and values of any kind, the empty one included
NsIds == Keys \cup Values \cup {<<>>}
NsValues == Values \cup {<<>>}

CacheUnused ==
    /\ cache = {}
    /\ max_entries = 1
    /\ lock = Free
    /\ pc = [t \in Callers |-> "idle"]
    /\ result = NoResult

NoStoreInit ==
    /\ CacheUnused
    /\ NoHistory
    /\ SniInit
    /\ NoResolver
    /\ NoTrace

NsGenerate ==
    /\ result' = NoStore_generate
    /\ last' = Called("generate", <<>>, <<>>, result')
    /\ UNCHANGED <<cacheVars, prev, putLog, before, sniVars, otherVars, traceVars>>

NsPut ==
    \E id \in NsIds, sec \in NsValues :
        /\ result' = NoStore_put(id, sec)
        /\ last' = Called("put", id, sec, result')
        /\ putLog' = LogPut(putLog, id)
        /\ UNCHANGED <<cacheVars, prev, before, sniVars, otherVars, traceVars>>

NsGet ==
    \E id \in NsIds :
        /\ result' = NoStore_get(id)
        /\ last' = Called("get", id, <<>>, result')
        /\ UNCHANGED <<cacheVars, prev, putLog, before, sniVars, otherVars, traceVars>>

NoStoreNext ==
    \/ NsGenerate
    \/ NsPut
    \/ NsGet

NoStoreSpec == NoStoreInit /\ [][NoStoreNext]_vars

\* ------------------------------- SniSpec: ResolvesServerCertUsingSNI
SniSpecInit ==
    /\ CacheUnused
    /\ NoHistory
    /\ SniInit
    /\ NoResolver
    /\ NoTrace

SniAdd ==
    \E name \in SniNames, ck \in CertifiedKeys :
        /\ by_name' = Add(by_name, name, ck).by_name
        /\ result' = Add(by_name, name, ck).result
        /\ last' = Called("add", name, ck, result')
        /\ added' = LogAdd(added, name, ck, result')
        /\ UNCHANGED <<cacheVars, prev, putLog, before, otherVars, traceVars>>

SniResolve ==
    \E server_name \in {None} \cup {Some(n) : n \in DnsNameRefs},
       sigschemes \in SchemeLists :
        /\ result' = Resolve(by_name, server_name, sigschemes)
        /\ last' = Called("resolve", server_name, sigschemes, result')
        /\ UNCHANGED <<cacheVars, prev, putLog, before, sniVars, otherVars, traceVars>>

SniNext ==
    \/ SniAdd
    \/ SniResolve

SniSpec == SniSpecInit /\ [][SniNext]_vars

\* ------------------------------------ StaticSpec: AlwaysResolvesChain
\* certificate chains, private keys that RSASigningKey::new accepts, and
\* OCSP / SCT blobs, empty or not
Chains == {ck.cert : ck \in CertifiedKeys}
PrivateKeys == {1, 2}
Blobs == {<<>>, <<48>>}
ServerNames == {None} \cup {Some(n) : n \in DnsNameRefs}

StaticInit ==
    /\ CacheUnused
    /\ NoHistory
    /\ SniInit
    /\ NoTrace
    /\ encLog = {}
    /\ \E chain \in Chains, priv_key \in PrivateKeys :
          \/ resolver_ck = AlwaysResolvesChain_new_rsa(chain, priv_key)
          \/ \E ocsp \in Blobs, scts \in Blobs :
                resolver_ck =
                    AlwaysResolvesChain_new_rsa_with_extras(chain, priv_key, ocsp, scts)

StaticResolve ==
    \E server_name \in ServerNames, sigschemes \in SchemeLists :
        /\ result' = AlwaysResolvesChain_resolve(resolver_ck, server_name, sigschemes)
        /\ last' = Called("resolve", server_name, sigschemes, result')
        /\ prev' = last
        /\ UNCHANGED <<cacheVars, putLog, before, sniVars, otherVars, traceVars>>

StaticNext == StaticResolve

StaticSpec == StaticInit /\ [][StaticNext]_vars

\* ----------------------------------- TicketSpec: NeverProducesTickets
TicketInputs == Keys \cup Values \cup {<<>>}

TicketInit ==
    /\ CacheUnused
    /\ NoHistory
    /\ SniInit
    /\ NoResolver
    /\ NoTrace

TkEnabled ==
    /\ result' = Never_enabled
    /\ last' = Called("enabled", <<>>, <<>>, result')
    /\ UNCHANGED <<cacheVars, prev, putLog, before, sniVars, otherVars, traceVars>>

TkGetLifetime ==
    /\ result' = Never_get_lifetime
    /\ last' = Called("get_lifetime", <<>>, <<>>, result')
    /\ UNCHANGED <<cacheVars, prev, putLog, before, sniVars, otherVars, traceVars>>

TkEncrypt ==
    \E bytes \in TicketInputs :
        /\ result' = Never_encrypt(bytes)
        /\ last' = Called("encrypt", bytes, <<>>, result')
        /\ encLog' = encLog \cup {bytes}
        /\ UNCHANGED <<cacheVars, prev, putLog, before, sniVars, resolver_ck, traceVars>>

TkDecrypt ==
    \E bytes \in TicketInputs :
        /\ result' = Never_decrypt(bytes)
        /\ last' = Called("decrypt", bytes, <<>>, result')
        /\ UNCHANGED <<cacheVars, prev, putLog, before, sniVars, otherVars, traceVars>>

TicketNext ==
    \/ TkEnabled
    \/ TkGetLifetime
    \/ TkEncrypt
    \/ TkDecrypt

TicketSpec == TicketInit /\ [][TicketNext]_vars

\* ------------------------------------------ FailSpec: FailResolveChain
FailResolve ==
    \E server_name \in ServerNames, sigschemes \in SchemeLists :
        /\ result' = FailResolve_resolve(server_name, sigschemes)
        /\ last' = Called("resolve", server_name, sigschemes, result')
        /\ prev' = last
        /\ UNCHANGED <<cacheVars, putLog, before, sniVars, otherVars, traceVars>>

FailNext == FailResolve

FailSpec == TicketInit /\ [][FailNext]_vars

\* ------------------------------- TraceSpec: several callers, with history
\* As Spec, and latest[k] is the value of the latest insert under k whose
\* entry was not evicted since, peak the largest size the map had after an
\* insert.
Max(a, b) == IF a > b THEN a ELSE b

TrGenerate ==
    \E t \in Callers :
        Generate(t) /\ UNCHANGED <<history, sniVars, otherVars, traceVars>>
TrPutCall ==
    \E t \in Callers :
        PutCall(t) /\ UNCHANGED <<history, sniVars, otherVars, traceVars>>
TrPutInsert ==
    \E t \in Callers, k \in Keys, v \in Values :
        /\ PutInsert(t, k, v)
        /\ latest' = [latest EXCEPT ![k] = Some(v)]
        /\ peak' = Max(peak, HashMapLen(cache'))
        /\ UNCHANGED <<history, sniVars, otherVars>>
TrLimitSizeLock ==
    \E t \in Callers :
        LimitSizeLock(t) /\ UNCHANGED <<history, sniVars, otherVars, traceVars>>
TrLimitSizeEvict ==
    \E t \in Callers :
        /\ LimitSizeEvict(t)
        /\ latest' = [k \in Keys |-> IF HashMapContains(cache', k)
                                     THEN latest[k]
                                     ELSE None]
        /\ UNCHANGED <<history, sniVars, otherVars, peak>>
TrLimitSizeReturn ==
    \E t \in Callers :
        LimitSizeReturn(t) /\ UNCHANGED <<history, sniVars, otherVars, traceVars>>
TrGetCall ==
    \E t \in Callers :
        GetCall(t) /\ UNCHANGED <<history, sniVars, otherVars, traceVars>>
TrGetLookup ==
    \E t \in Callers, k \in Keys :
        GetLookup(t, k) /\ UNCHANGED <<history, sniVars, otherVars, traceVars>>

TraceNext ==
    \/ TrGenerate
    \/ TrPutCall
    \/ TrPutInsert
    \/ TrLimitSizeLock
    \/ TrLimitSizeEvict
    \/ TrLimitSizeReturn
    \/ TrGetCall
    \/ TrGetLookup

TraceSpec == Init /\ [][TraceNext]_vars

\* ------------------------------- FairSpec: several callers, fair scheduling
\* Every caller that is inside a call is scheduled again and again, and a
\* caller that can take the lock again and again does take it (strong
\* fairness of the two lock().unwrap() sites of put and the one of get);
\* whether a caller enters a call at all is left open.  Whether a call
\* returns does not depend on the values stored, so every put stores the
\* same value.
FairValue == CHOOSE v \in Values : TRUE

FairGenerate(t) ==
    Generate(t) /\ UNCHANGED <<history, sniVars, otherVars, traceVars>>
FairPutCall(t) ==
    PutCall(t) /\ UNCHANGED <<history, sniVars, otherVars, traceVars>>
FairPutInsert(t) ==
    \E k \in Keys :
        PutInsert(t, k, FairValue) /\ UNCHANGED <<history, sniVars, otherVars, traceVars>>
FairLimitSizeLock(t) ==
    LimitSizeLock(t) /\ UNCHANGED <<history, sniVars, otherVars, traceVars>>
FairLimitSizeEvict(t) ==
    LimitSizeEvict(t) /\ UNCHANGED <<history, sniVars, otherVars, traceVars>>
FairLimitSizeReturn(t) ==
    LimitSizeReturn(t) /\ UNCHANGED <<history, sniVars, otherVars, traceVars>>
FairGetCall(t) ==
    GetCall(t) /\ UNCHANGED <<history, sniVars, otherVars, traceVars>>
FairGetLookup(t) ==
    \E k \in Keys :
        GetLookup(t, k) /\ UNCHANGED <<history, sniVars, otherVars, traceVars>>

FairNext ==
    \E t \in Callers :
        \/ FairGenerate(t)
        \/ FairPutCall(t)
        \/ FairPutInsert(t)
        \/ FairLimitSizeLock(t)
        \/ FairLimitSizeEvict(t)
        \/ FairLimitSizeReturn(t)
        \/ FairGetCall(t)
        \/ FairGetLookup(t)

\* the steps of caller t that take the lock, and those it does holding it
TakesLock(t) == FairPutInsert(t) \/ FairLimitSizeLock(t) \/ FairGetLookup(t)
HoldsLock(t) == FairLimitSizeEvict(t) \/ FairLimitSizeReturn(t)

Fairness ==
    \A t \in Callers :
        /\ SF_vars(TakesLock(t))
        /\ WF_vars(HoldsLock(t))

FairSpec == Init /\ [][FairNext]_vars /\ Fairness

\* ================================================================ claims
Min(a, b) == IF a < b THEN a ELSE b

Retrievable(ks) == {k \in ks : HashMapGet(cache, k) # None}

\* the step in which caller t's get does its lookup and returns
GetReturns(t) == pc[t] = "get_lock" /\ pc'[t] = "idle"

\* caller u's insert or lookup takes effect in this step
TakesEffect(u) == pc[u] \in {"put_lock", "get_lock"} /\ pc'[u] # pc[u]

\* C1 (SeqSpec): whenever the single caller is outside a call, and so after
\* every put has returned, the map holds at most max_entries entries.
C1_BoundAfterPut == pc[Solo] = "idle" => HashMapLen(cache) <= max_entries

\* a put has returned after more distinct keys were put than the map may hold
C1_Witness ==
    /\ pc[Solo] = "idle"
    /\ last.op = "put"
    /\ putLog.distinct
    /\ Cardinality(putLog.keys) > max_entries
    /\ HashMapLen(cache) = max_entries

\* C2 (Spec): between the insert of a put and the end of its eviction pass no
\* get or put of another caller takes effect, and no get does its lookup in a
\* map of more than max_entries entries.
C2_PutIsAtomic ==
    [][/\ \A t \in Callers :
            pc[t] \in {"limit_lock", "limit_loop"} =>
                \A u \in Callers \ {t} : ~TakesEffect(u)
       /\ \A u \in Callers :
            GetReturns(u) => HashMapLen(cache) <= max_entries]_vars

\* C3 as stated (SeqSpec): a get(id) that directly follows put(id, value)
\* returns Some(value), in every state of the map, and put returned true.
C3_GetAfterPut_AsStated ==
    (/\ pc[Solo] = "idle"
     /\ last.op = "get"
     /\ prev.op = "put"
     /\ prev.key = last.key)
    => (prev.result = Bool(TRUE) /\ last.result = Some(prev.value))

\* C3 amended (SeqSpec): put returns true; the get(id) that directly follows
\* put(id, value) returns Some(value) when id was stored or the map held fewer
\* than max_entries entries as put was entered, and Some(value) or None when
\* the put added a new key to a full map.
C3_GetAfterPut ==
    /\ (pc[Solo] = "idle" /\ last.op = "put") => last.result = Bool(TRUE)
    /\ (/\ pc[Solo] = "idle"
        /\ last.op = "get"
        /\ prev.op = "put"
        /\ prev.key = last.key)
       => /\ prev.result = Bool(TRUE)
          /\ last.result \in {Some(prev.value), None}
          /\ (before.had \/ before.len < max_entries)
                => last.result = Some(prev.value)

\* put(id, v) on a stored id with another value, then get(id) gave Some(v)
C3_Witness ==
    /\ pc[Solo] = "idle"
    /\ last.op = "get"
    /\ prev.op = "put"
    /\ prev.key = last.key
    /\ before.had
    /\ before.old # Some(prev.value)
    /\ last.result = Some(prev.value)

\* C4 (SeqSpec): as long as every put so far had a new key, the number of put
\* keys that get finds is min(number of puts, max_entries).
C4_DistinctPutsRetrievable ==
    (pc[Solo] = "idle" /\ putLog.distinct)
    => Cardinality(Retrievable(putLog.keys))
         = Min(Cardinality(putLog.keys), max_entries)

\* more distinct keys than max_entries were put, one after another
C4_Witness ==
    /\ pc[Solo] = "idle"
    /\ putLog.distinct
    /\ Cardinality(putLog.keys) > max_entries
    /\ Cardinality(Retrievable(putLog.keys)) = max_entries

\* C5 (SeqSpec): a put(k, v2) on a key that is stored when the put is entered
\* leaves k stored with v2, one entry for k, and as many entries as before.
C5_PutOverwrites ==
    (/\ pc[Solo] = "idle"
     /\ last.op = "put"
     /\ before.had)
    => /\ HashMapGet(cache, last.key) = Some(last.value)
       /\ Cardinality({e \in cache : e[1] = last.key}) = 1
       /\ HashMapLen(cache) = before.len

\* put(k, v1) then put(k, v2) with v1 # v2, k stored in between
C5_Witness ==
    /\ pc[Solo] = "idle"
    /\ last.op = "put"
    /\ prev.op = "put"
    /\ prev.key = last.key
    /\ prev.value # last.value
    /\ before.old = Some(prev.value)
    /\ HashMapGet(cache, last.key) = Some(last.value)

\* C6 (SeqSpec): the lookup step of a get leaves the map as it is (it evicts
\* nothing), and a get(k) that directly follows a get(k) returns the same.
C6_GetIsPure ==
    [][GetReturns(Solo) =>
          /\ cache' = cache
          /\ (last.op = "get" /\ last.key = last'.key)
                => last'.result = last.result]_vars

\* two get(k) in a row on a stored key
C6_Witness ==
    /\ pc[Solo] = "idle"
    /\ last.op = "get"
    /\ prev.op = "get"
    /\ prev.key = last.key
    /\ last.result # None
    /\ last.result = prev.result
    /\ HashMapLen(cache) = max_entries

\* C7 (NoStoreSpec): whatever was called before, generate returned the empty
\* SessionID of length 0, put returned false, and get returned none, also for
\* an id that an earlier put was given.
C7_DisabledStore ==
    /\ last.op = "generate" =>
          (last.result = SessionID_empty /\ SessionID_len(last.result) = 0)
    /\ last.op = "put" => last.result = Bool(FALSE)
    /\ last.op = "get" => last.result = None
    /\ \A id \in putLog.keys : NoStore_get(id) = None

\* a get of an id that was put before returned none
C7_Witness ==
    /\ last.op = "get"
    /\ last.key \in putLog.keys
    /\ last.key # <<>>
    /\ last.result = None

\* the add of this step failed: bad name, or certificate not valid for it
AddFailed ==
    /\ last'.op = "add"
    /\ \/ last'.result # Ok
       \/ ~IsValidDnsName(last'.key)
       \/ CrossCheckEndEntityCert(last'.value, last'.key) # Ok

\* C8 (SniSpec): an add that fails, for a name that is not a legal DNS name
\* or a certificate that is not valid for the name, returns an error and
\* leaves the table, and so the result of every resolve, as it was.
C8_FailedAddKeepsTable ==
    [][AddFailed =>
          /\ last'.result[1] = "Err"
          /\ by_name' = by_name
          /\ \A n \in DnsNameRefs, s \in SchemeLists :
                Resolve(by_name', Some(n), s) = Resolve(by_name, Some(n), s)]_vars

\* an add failed on the certificate check for a name that has an entry
C8_Witness ==
    /\ last.op = "add"
    /\ last.result # Ok
    /\ IsValidDnsName(last.key)
    /\ HashMapContains(by_name, last.key)
    /\ HashMapGet(by_name, last.key) # Some(last.value)

\* C9 (SniSpec): every entry of the table has a legal DNS name and a
\* CertifiedKey whose end-entity certificate is valid for that name.
C9_TableEntriesValid ==
    \A e \in by_name :
        /\ IsValidDnsName(e[1])
        /\ CrossCheckEndEntityCert(e[2], e[1]) = Ok

\* adds were refused and adds were accepted
C9_Witness ==
    /\ last.op = "add"
    /\ last.result # Ok
    /\ HashMapLen(by_name) >= 3

\* C10 (SniSpec): resolve(Some(name), schemes) is the CertifiedKey of the
\* latest successful add of name, none when no add of name succeeded, for
\* every list of signature schemes.
C10_ResolveLatestAdd ==
    /\ \A n \in DnsNameRefs, s \in SchemeLists :
          Resolve(by_name, Some(n), s) = LatestAdded(n)
    /\ (last.op = "resolve" /\ last.key # None)
          => last.result = LatestAdded(last.key[2])

\* a name was added twice with different keys and resolves to the second
C10_Witness ==
    /\ last.op = "resolve"
    /\ last.key # None
    /\ Len(added[last.key[2]]) = 2
    /\ added[last.key[2]][1] # added[last.key[2]][2]
    /\ last.result = Some(added[last.key[2]][2])
    /\ \E n \in DnsNameRefs : Len(added[n]) = 0

\* two names that differ at most in the case of their letters
SameButCase(n1, n2) == Lower(n1) = Lower(n2)

\* C11 (SniSpec): names that differ only in letter case denote one table
\* entry: they resolve alike, a name resolves to the key of the latest
\* successful add under any of its spellings, and the table holds at most one
\* entry per name up to letter case.
C11_CaseInsensitiveNames ==
    /\ \A n1 \in DnsNameRefs, n2 \in DnsNameRefs, s \in SchemeLists :
          SameButCase(n1, n2) =>
              Resolve(by_name, Some(n1), s) = Resolve(by_name, Some(n2), s)
    /\ \A e1 \in by_name, e2 \in by_name :
          SameButCase(e1[1], e2[1]) => e1 = e2
    /\ (last.op = "add" /\ last.result = Ok) =>
          \A n \in DnsNameRefs, s \in SchemeLists :
              SameButCase(n, last.key) =>
                  Resolve(by_name, Some(n), s) = Some(last.value)

\* C12 (SniSpec): resolve(None, schemes) returns none for every table and
\* every list of signature schemes, a table of exactly one entry included.
C12_ResolveWithoutName ==
    /\ \A s \in SchemeLists : Resolve(by_name, None, s) = None
    /\ (last.op = "resolve" /\ last.key = None) => last.result = None

\* resolve(None, _) was called on a table of one entry and returned none
C12_Witness ==
    /\ last.op = "resolve"
    /\ last.key = None
    /\ last.value # <<>>
    /\ HashMapLen(by_name) = 1
    /\ last.result = None

\* C13 (StaticSpec): every resolve returned the CertifiedKey the resolver
\* was built with, whole, for every server name, none included, and every
\* list of signature schemes, just as the resolve before it did.
C13_StaticResolve ==
    /\ last.op = "resolve" => last.result = Some(resolver_ck)
    /\ (last.op = "resolve" /\ prev.op = "resolve") => last.result = prev.result
    /\ \A sn \in ServerNames, s \in SchemeLists :
          AlwaysResolvesChain_resolve(resolver_ck, sn, s) = Some(resolver_ck)

\* a resolve without a name, after a resolve with one, gave the key with
\* its OCSP response
C13_Witness ==
    /\ last.op = "resolve"
    /\ last.key = None
    /\ prev.op = "resolve"
    /\ prev.key # None
    /\ prev.value # last.value
    /\ resolver_ck.ocsp # None
    /\ resolver_ck.sct_list = None
    /\ last.result = Some(resolver_ck)

\* C14 (TicketSpec): whatever was called before, enabled returned false,
\* get_lifetime returned 0, and encrypt and decrypt returned none, also for
\* an input that an earlier encrypt was given.
C14_DisabledTickets ==
    /\ last.op = "enabled" => last.result = Bool(FALSE)
    /\ last.op = "get_lifetime" => last.result = U32(0)
    /\ last.op = "encrypt" => last.result = None
    /\ last.op = "decrypt" => last.result = None
    /\ \A bytes \in encLog :
          Never_encrypt(bytes) = None /\ Never_decrypt(bytes) = None

\* decrypt of an input that was handed to encrypt before returned none
C14_Witness ==
    /\ last.op = "decrypt"
    /\ last.key \in encLog
    /\ last.key # <<>>
    /\ last.result = None

\* C15 (FailSpec): resolve returned none, with a server name and without,
\* for every list of signature schemes.
C15_FailResolve ==
    /\ last.op = "resolve" => last.result = None
    /\ prev.op = "resolve" => prev.result = None
    /\ \A sn \in ServerNames, s \in SchemeLists :
          FailResolve_resolve(sn, s) = None

\* a resolve with a name and a resolve without, both none
C15_Witness ==
    /\ last.op = "resolve"
    /\ last.key # None
    /\ last.value # <<>>
    /\ prev.op = "resolve"
    /\ prev.key = None
    /\ last.result = None
    /\ prev.result = None

\* the steps of the single caller's put: its insert, a removal, its return
InsertStep == pc[Solo] = "put_lock" /\ pc'[Solo] = "limit_lock"
EvictStep == pc[Solo] = "limit_loop" /\ pc'[Solo] = "limit_loop" /\ cache' # cache
ReturnStep == pc[Solo] = "limit_loop" /\ pc'[Solo] = "idle"

\* the entries of m under keys other than k
Others(m, k) == {e \in m : e[1] # k}

\* C16 (SeqSpec): put(k, v) changes no entry of another key at its insert;
\* it removes an entry only if k was not stored and the map held max_entries
\* entries as it was entered, and then exactly one, leaving the other
\* entries as they were; when it returns, the map holds one entry more than
\* before if k was new and there was room, and as many as before otherwise.
C16_EvictsOnlyOverLimit ==
    [][/\ InsertStep =>
             /\ Others(cache', last'.key) = Others(cache, last'.key)
             /\ HashMapGet(cache', last'.key) = Some(last'.value)
       /\ EvictStep =>
             /\ ~before.had
             /\ before.len = max_entries
             /\ HashMapLen(cache) = before.len + 1
             /\ cache' \subseteq cache
             /\ Cardinality(cache \ cache') = 1
       /\ ReturnStep =>
             /\ cache' = cache
             /\ HashMapLen(cache) =
                   IF before.had \/ before.len = max_entries
                   THEN before.len
                   ELSE before.len + 1]_vars

\* a put of a new key into a full map returned, and the key put is stored:
\* the one entry removed was another one
C16_Witness ==
    /\ pc[Solo] = "idle"
    /\ last.op = "put"
    /\ ~before.had
    /\ before.len = max_entries
    /\ max_entries > 1
    /\ HashMapLen(cache) = max_entries
    /\ HashMapGet(cache, last.key) = Some(last.value)

\* C17 (TraceSpec): a get(k) that returns Some(v) returns the value of the
\* latest insert under k done before it, under any interleaving of callers;
\* never a value inserted under another key only, never an overwritten one.
C17_GetReturnsLatestPut ==
    [][\A t \in Callers, k \in Keys :
          (GetLookup(t, k) /\ result' # None) => result' = latest[k]]_vars

\* a get returned a value while a put of another caller was between its
\* insert and its eviction pass, another key holding another value
C17_Witness ==
    /\ \E k \in Keys : result = latest[k] /\ result # None
    /\ \E k \in Keys : latest[k] # None /\ latest[k] # result
    /\ \E t \in Callers : pc[t] = "limit_lock"
    /\ HashMapLen(cache) > max_entries

PutsEvicting == {t \in Callers : pc[t] \in {"limit_lock", "limit_loop"}}

\* C19 (Spec): the map holds at most max_entries entries plus one for each
\* put between its insert and the end of its eviction pass, and so never more
\* than max_entries + NumCallers.
C19_BoundWithPutsInProgress ==
    /\ HashMapLen(cache) <= max_entries + Cardinality(PutsEvicting)
    /\ HashMapLen(cache) <= max_entries + NumCallers

\* two puts have inserted and none has evicted: two entries over the bound
C19_Witness ==
    /\ Cardinality(PutsEvicting) = 2
    /\ HashMapLen(cache) = max_entries + 2

\* the puts that were entered and have not returned
PutsInProgress ==
    {t \in Callers : pc[t] \in {"put_lock", "limit_lock", "limit_loop"}}

\* C20 (TraceSpec): whenever no put is in progress the map holds at most
\* max_entries entries, whatever the puts before did.
C20_BoundWhenNoPut == PutsInProgress = {} => HashMapLen(cache) <= max_entries

\* no put is in progress, and the map once held two entries over the bound
C20_Witness ==
    /\ PutsInProgress = {}
    /\ peak = max_entries + 2
    /\ HashMapLen(cache) = max_entries

====
